---- MODULE Spec2Model ----
(***************************************************************************)
(* SearchIndex (src/main.py): a recursive crawl of one or more filesystem  *)
(* roots that records directories, files and tags in a SQLite store.       *)
(*                                                                         *)
(* Strings are sequences of one-character strings, so that prefix tests,   *)
(* dirname and splitext are computed as the code computes them.            *)
(* The columns no property reads (permission, created, accessed, modified) *)
(* are left out of the rows.                                               *)
(***************************************************************************)
EXTENDS Integers, Sequences, FiniteSets, TLC

VARIABLES
    platform,      \* os.name of the interpreter: "posix", "nt" or "other"
    filesystems,   \* the -f argument of main: [given, val]
    fs,            \* the filesystem under the roots, unchanged during a behaviour
    pc,            \* position of the process: "start", "walking", "done", "crashed"
    run,           \* number of the current process run
    rootsLeft,     \* root_directories still to be walked by main's loop
    stack,         \* the active calls of get_directory_structure
    directories,   \* table directories, as seen through the open connection
    files,         \* table files
    tags,          \* table tags
    committed,     \* the three tables as of the last conn.commit()
    lastReturn,    \* the last return of get_directory_structure
    calls,         \* recursive calls of get_directory_structure made in this run
    probe          \* a function applied on its own: [op, arg, res]

vars == <<platform, filesystems, fs, pc, run, rootsLeft, stack,
          directories, files, tags, committed, lastReturn, calls, probe>>

(***************************************************************************)
(* Bounds                                                                  *)
(***************************************************************************)
MaxRuns == 2      \* process runs against the same store
MaxFaults == 1    \* entries of the tree on which a system call fails

(***************************************************************************)
(* Python values                                                           *)
(***************************************************************************)
NULL == 0                     \* None / SQL NULL for an id (row ids start at 1)
NoList == [given |-> FALSE, val |-> <<>>]
SomeList(l) == [given |-> TRUE, val |-> l]

Tail1(s) == IF s = <<>> THEN <<>> ELSE Tail(s)   \* s[1:]

StartsWith(s, p) == Len(p) <= Len(s) /\ SubSeq(s, 1, Len(p)) = p

\* str.lower() on one character of the alphabet in use
Lower(c) ==
    CASE c = "T" -> "t"
      [] c = "D" -> "d"
      [] c = "C" -> "c"
      [] OTHER -> c

LowerStr(s) == [i \in 1..Len(s) |-> Lower(s[i])]

\* str.rfind(ch): the last index of ch in s, 0 when absent (1-based)
RFind(s, ch) ==
    LET hits == {i \in 1..Len(s) : s[i] = ch}
    IN IF hits = {} THEN 0 ELSE CHOOSE i \in hits : \A j \in hits : j <= i

(***************************************************************************)
(* The filesystem. An entry is named by its position in a fixed universe:  *)
(* <<r>> is root number r, n \o <<i>> the entry named SegName(i) in n.     *)
(***************************************************************************)
Universe == {<<1>>, <<1, 1>>, <<1, 1, 1>>, <<1, 2>>, <<2>>}

Parent(n) == SubSeq(n, 1, Len(n) - 1)
IsRootNode(n) == Len(n) = 1

SegName(i) == IF i = 1 THEN <<"a">> ELSE <<"b", ".", "T">>

DriveLetter(r) == IF r = 1 THEN "C" ELSE "D"

\* os.sep
Sep == IF platform = "nt" THEN "\\" ELSE "/"

\* str(Path(...)) of a traversal root
RootStr(r) == IF platform = "nt" THEN <<DriveLetter(r), ":", "\\">> ELSE <<"/">>

\* str(rootdir.joinpath(item))
joinpath(p, item) ==
    IF p[Len(p)] = Sep THEN p \o item ELSE p \o <<Sep>> \o item

RECURSIVE PathStr(_)
PathStr(n) ==
    IF IsRootNode(n) THEN RootStr(n[1])
    ELSE joinpath(PathStr(Parent(n)), SegName(n[Len(n)]))

\* rootdir.name: the last component, empty for a root
PathName(n) == IF IsRootNode(n) THEN <<>> ELSE SegName(n[Len(n)])

\* The fault of an entry is the system call that fails on it:
\*   statPerm, statOS      os.stat raises PermissionError / another OSError,
\*                         whoever calls it (os.path.isdir then answers False);
\*   lateStatPerm, lateStatOS   os.path.isdir still saw the directory, the
\*                         os.stat of the call on it raises (changed mid-walk);
\*   listPerm, listOS      os.listdir raises;
\*   resolve               path.resolve() raises;
\*   owner                 the owner lookup raises.
Absent == [kind |-> "none", mount |-> FALSE, fault |-> "none", target |-> "-"]

LinkEntries ==
    {[kind |-> "link", mount |-> FALSE, fault |-> "none", target |-> t] :
        t \in {"file", "dir"}}

FileEntries ==
    {[kind |-> "file", mount |-> FALSE, fault |-> f, target |-> "-"] :
        f \in {"none", "statPerm", "statOS", "owner"}}

DirEntries ==
    {[kind |-> "dir", mount |-> m, fault |-> f, target |-> "-"] :
        m \in BOOLEAN,
        f \in {"none", "statPerm", "statOS", "lateStatPerm", "lateStatOS",
               "listPerm", "listOS"}}
    \cup {[kind |-> "dir", mount |-> TRUE, fault |-> "resolve", target |-> "-"]}

\* a root is statted without a test before it
RootEntries ==
    {e \in DirEntries : ~e.mount /\ e.fault \notin {"lateStatPerm", "lateStatOS"}}

\* what a directory entry can be, given what contains it
Under(e) ==
    IF e.kind = "dir" THEN {Absent} \cup LinkEntries \cup FileEntries \cup DirEntries
    ELSE {Absent}

Faulty(f) == {n \in DOMAIN f : f[n].fault # "none"}

(***************************************************************************)
(* Byte counts. Python integers are unbounded; a count is kept here as     *)
(* hi * 2^20 + lo with 0 <= lo < 2^20, so that 4 GiB and more are exact.   *)
(***************************************************************************)
Limb == 1024 * 1024

Num(k) == [hi |-> k \div Limb, lo |-> k % Limb]

\* x * 1024
Times1024(x) ==
    LET l == x.lo * 1024
    IN [hi |-> x.hi * 1024 + (l \div Limb), lo |-> l % Limb]

\* x + d, for a small d of either sign
Plus(x, d) ==
    LET l == x.lo + d
    IN [hi |-> x.hi + (l \div Limb), lo |-> l % Limb]

Less(x, y) == x.hi < y.hi \/ (x.hi = y.hi /\ x.lo < y.lo)
LessEq(x, y) == x = y \/ Less(x, y)

\* st_size of a file, fixed by its name: 10 bytes or 2 MiB
StSize(n) == IF n[Len(n)] = 1 THEN Num(10) ELSE Times1024(Times1024(Num(2)))

(***************************************************************************)
(* What the os and os.path calls of the walker answer                      *)
(***************************************************************************)
\* os.listdir(rootdir), as a set: the order of the entries is the caller's choice
listdir(n) == {c \in Universe : Len(c) = Len(n) + 1 /\ Parent(c) = n /\ fs[c].kind # "none"}

\* a walker that takes no entry for a symbolic link
islink_never(n) == FALSE

\* a link test that answers True for links to files only
islink_files(n) == fs[n].kind = "link" /\ fs[n].target = "file"

\* os.path.islink(item_path), line 132
islink(n) == fs[n].kind = "link"

\* os.path.isdir(item_path), line 134: follows a symbolic link to its target,
\* and answers False when its own stat fails
isdir(n) ==
    \/ fs[n].kind = "dir" /\ fs[n].fault \notin {"statPerm", "statOS"}
    \/ fs[n].kind = "link" /\ fs[n].target = "dir"

\* a walker that takes every directory for a mount point
ismount_always(n) == TRUE

\* a walker that takes no directory for a mount point
ismount_never(n) == FALSE

\* os.path.ismount(item_path), line 135
ismount(n) == fs[n].mount

\* a policy that answers as on Windows on every platform
is_path_in_filesystems_always(n, fsys) == TRUE

\* a policy that matches whole path components, not characters
is_path_in_filesystems_components(n, fsys) ==
    IF platform = "nt" THEN TRUE
    ELSE IF fs[n].fault = "resolve" THEN FALSE
    ELSE IF ~fsys.given THEN FALSE
    ELSE \E i \in 1..Len(fsys.val) :
            /\ StartsWith(PathStr(n), fsys.val[i])
            /\ \/ Len(PathStr(n)) = Len(fsys.val[i])
               \/ PathStr(n)[Len(fsys.val[i]) + 1] = Sep
               \/ fsys.val[i] # <<>> /\ fsys.val[i][Len(fsys.val[i])] = Sep

\* lines 177-189, for a path without links or dots, which resolve() leaves as
\* it is when it does not raise
is_path_in_filesystems(n, fsys) ==
    IF platform = "nt" THEN TRUE
    ELSE IF fs[n].fault = "resolve" THEN FALSE      \* path.resolve() raised
    ELSE IF ~fsys.given THEN FALSE                  \* iterating None raised TypeError
    ELSE \E i \in 1..Len(fsys.val) : StartsWith(PathStr(n), fsys.val[i])

(***************************************************************************)
(* Classifier                                                              *)
(***************************************************************************)
\* a classifier whose Tiny bucket leaves out its upper threshold
get_file_size_category_open(file_size_in_bytes) ==
    IF file_size_in_bytes = Num(0) THEN "Empty"
    ELSE IF Less(file_size_in_bytes, Times1024(Num(16))) THEN "Tiny"
    ELSE IF Less(Times1024(Num(16)), file_size_in_bytes)
            /\ LessEq(file_size_in_bytes, Times1024(Times1024(Num(1)))) THEN "Small"
    ELSE IF LessEq(file_size_in_bytes, Times1024(Times1024(Num(128)))) THEN "Medium"
    ELSE IF LessEq(file_size_in_bytes, Times1024(Times1024(Times1024(Num(1)))))
        THEN "Large"
    ELSE IF LessEq(file_size_in_bytes, Times1024(Times1024(Times1024(Num(4)))))
        THEN "Huge"
    ELSE "Gigantic"

get_file_size_category(file_size_in_bytes) ==
    IF file_size_in_bytes = Num(0) THEN "Empty"
    ELSE IF Less(Num(0), file_size_in_bytes)
            /\ LessEq(file_size_in_bytes, Times1024(Num(16))) THEN "Tiny"
    ELSE IF Less(Times1024(Num(16)), file_size_in_bytes)
            /\ LessEq(file_size_in_bytes, Times1024(Times1024(Num(1)))) THEN "Small"
    ELSE IF Less(Times1024(Times1024(Num(1))), file_size_in_bytes)
            /\ LessEq(file_size_in_bytes, Times1024(Times1024(Num(128)))) THEN "Medium"
    ELSE IF Less(Times1024(Times1024(Num(128))), file_size_in_bytes)
            /\ LessEq(file_size_in_bytes, Times1024(Times1024(Times1024(Num(1)))))
        THEN "Large"
    ELSE IF Less(Times1024(Times1024(Times1024(Num(1)))), file_size_in_bytes)
            /\ LessEq(file_size_in_bytes, Times1024(Times1024(Times1024(Num(4)))))
        THEN "Huge"
    ELSE "Gigantic"

RECURSIVE RStrip(_, _)
RStrip(s, ch) ==
    IF s # <<>> /\ s[Len(s)] = ch THEN RStrip(SubSeq(s, 1, Len(s) - 1), ch) ELSE s

\* os.path.splitdrive: the drive of a Windows path, nothing elsewhere
DriveLen(p) == IF platform = "nt" /\ Len(p) >= 2 /\ p[2] = ":" THEN 2 ELSE 0

\* a dirname that keeps the separator it cut at
dirname_unstripped(p) ==
    LET d == DriveLen(p)
        rest == SubSeq(p, d + 1, Len(p))
    IN SubSeq(p, 1, d) \o SubSeq(rest, 1, RFind(rest, Sep))

\* os.path.dirname
dirname(p) ==
    LET d == DriveLen(p)
        rest == SubSeq(p, d + 1, Len(p))
        head == SubSeq(rest, 1, RFind(rest, Sep))
        stripped == RStrip(head, Sep)
    IN SubSeq(p, 1, d) \o (IF stripped # <<>> THEN stripped ELSE head)

RECURSIVE get_folder_depth(_)
get_folder_depth(file_path) ==
    IF file_path = dirname(file_path) THEN 0
    ELSE 1 + get_folder_depth(dirname(file_path))

\* os.path.splitext(p)[1]: the suffix from the last dot of the last component,
\* leading dots of that component not counted
splitext1(p) ==
    LET sepIndex == RFind(p, Sep)
        dotIndex == RFind(p, ".")
    IN IF dotIndex > sepIndex
          /\ \E k \in (sepIndex + 1)..(dotIndex - 1) : p[k] # "."
       THEN SubSeq(p, dotIndex, Len(p))
       ELSE <<>>

\* os.path.splitext(str(item_path))[1][1:].lower(), line 151
file_format_of(p) == LowerStr(Tail1(splitext1(p)))

\* identifiers.IDENTIFIERS.get(file_format, None): the static table
IDENTIFIERS_get(file_format) ==
    IF file_format = <<"t">> THEN "text" ELSE "None"

(***************************************************************************)
(* Persistence: the three tables hold their rows in insertion order        *)
(***************************************************************************)
\* the rowid SQLite gives an INTEGER PRIMARY KEY left out of the INSERT
NextRowId(t) == IF t = <<>> THEN 1 ELSE t[Len(t)].id + 1

\* INSERT OR REPLACE INTO a directories table whose full_path is unique
insert_directory_replace(t, parent_id, directory_name, full_path) ==
    Append(SelectSeq(t, LAMBDA r : r.full_path # full_path),
           [id |-> NextRowId(t), parent_id |-> parent_id,
            directory_name |-> directory_name, full_path |-> full_path])

\* INSERT OR IGNORE INTO directories: the only key of the table is id, which
\* is fresh, so no row is ever ignored
insert_directory(t, parent_id, directory_name, full_path) ==
    Append(t, [id |-> NextRowId(t), parent_id |-> parent_id,
               directory_name |-> directory_name, full_path |-> full_path])

insert_file(t, directory_id, file_name, file_path, size) ==
    Append(t, [id |-> NextRowId(t), directory_id |-> directory_id,
               file_name |-> file_name, file_path |-> file_path, size |-> size])

\* the id the next insert would get, taken for the id of the row just inserted
lastrowid_next(t) == NextRowId(t)

\* c.lastrowid after an insert that took place
lastrowid(t) == t[Len(t)].id

\* an insert_tag that binds the indent to the file_id column and back
insert_tag_swapped(t, file_id, file_size, file_format, file_owner, file_indent) ==
    IF \E i \in 1..Len(t) : t[i].file_id = file_indent THEN t
    ELSE Append(t, [file_id |-> file_indent, identifiers |-> IDENTIFIERS_get(file_format),
                    size |-> file_size, format |-> file_format,
                    owner |-> file_owner, indent |-> file_id])

\* INSERT OR IGNORE INTO tags: file_id is the primary key
insert_tag(t, file_id, file_size, file_format, file_owner, file_indent) ==
    IF \E i \in 1..Len(t) : t[i].file_id = file_id THEN t
    ELSE Append(t, [file_id |-> file_id, identifiers |-> IDENTIFIERS_get(file_format),
                    size |-> file_size, format |-> file_format,
                    owner |-> file_owner, indent |-> file_indent])

(***************************************************************************)
(* get_directory_structure: one frame per active call                      *)
(***************************************************************************)
NoProbe == [op |-> "none", arg |-> <<>>, res |-> "-"]
NoFile == [node |-> <<>>, id |-> NULL]
NoReturn == [node |-> <<>>, own |-> NULL, ret |-> NULL]

Frame(n, parent_id, own, todo) ==
    [node |-> n, parent_id |-> parent_id, own |-> own, todo |-> todo, file |-> NoFile]

Front(s) == SubSeq(s, 1, Len(s) - 1)
Top(s) == s[Len(s)]

\* a walker whose except PermissionError clause raises again
Handler_reraise(exc, depth) ==
    IF exc = "OSError" /\ depth >= 2 THEN "skip" ELSE "crash"

\* a walker without the try of lines 140-144 around its recursive call
Handler_nosite(exc, depth) ==
    IF exc = "PermissionError" THEN "return" ELSE "crash"

\* Which handler takes an exception raised in the call at the given depth:
\* "return": except PermissionError of that call (line 172);
\* "skip":   except OSError around the recursive call in its caller (line 143);
\* "crash":  none, the exception leaves main.
Handler(exc, depth) ==
    IF exc = "PermissionError" THEN "return"
    ELSE IF exc = "OSError" /\ depth >= 2 THEN "skip"
    ELSE "crash"

\* The state after `exc` is raised in the top call of stk
Raised(exc, stk, d, f, t) ==
    LET h == Handler(exc, Len(stk))
    IN CASE h = "return" ->
              [pc |-> "walking",
               stack |-> [stk EXCEPT ![Len(stk)].todo = {}, ![Len(stk)].file = NoFile],
               directories |-> d, files |-> f, tags |-> t]
         [] h = "skip" ->
              [pc |-> "walking", stack |-> Front(stk),
               directories |-> d, files |-> f, tags |-> t]
         [] OTHER ->
              \* the process dies before conn.commit(): the transaction is lost
              [pc |-> "crashed", stack |-> <<>>,
               directories |-> committed.directories, files |-> committed.files,
               tags |-> committed.tags]

\* get_directory_structure(conn, n, filesystems, parent_id) up to its loop:
\* stat, insert_directory, listdir (lines 116-130)
Call(n, parent_id, callers) ==
    LET entered == Append(callers, Frame(n, parent_id, NULL, {}))
    IN IF fs[n].fault \in {"statPerm", "lateStatPerm"}
       THEN Raised("PermissionError", entered, directories, files, tags)
       ELSE IF fs[n].fault \in {"statOS", "lateStatOS"} \/ fs[n].kind = "none"
       THEN Raised("OSError", entered, directories, files, tags)
       ELSE
         LET d2 == insert_directory(directories, parent_id, PathName(n), PathStr(n))
             id == lastrowid(d2)
             inserted == Append(callers, Frame(n, id, id, {}))
         IN IF fs[n].fault = "listPerm"
            THEN Raised("PermissionError", inserted, d2, files, tags)
            ELSE IF fs[n].fault = "listOS"
            THEN Raised("OSError", inserted, d2, files, tags)
            ELSE [pc |-> "walking",
                  stack |-> Append(callers, Frame(n, id, id, listdir(n))),
                  directories |-> d2, files |-> files, tags |-> tags]

(***************************************************************************)
(* The command line: -f values main can receive on each platform           *)
(***************************************************************************)
FsChoices(p) ==
    IF p = "nt" THEN {NoList, SomeList(<< <<"D", ":">> >>)}
    ELSE {NoList, SomeList(<< <<"/", "a">> >>)}

EmptyStore == [directories |-> <<>>, files |-> <<>>, tags |-> <<>>]

Init ==
    /\ platform \in {"posix", "nt", "other"}
    /\ filesystems \in FsChoices(platform)
    /\ \E r1 \in RootEntries, r2 \in RootEntries \cup {Absent} :
       \E e11 \in Under(r1), e12 \in Under(r1) :
       \E e111 \in Under(e11) :
          /\ fs = (<<1>> :> r1 @@ <<1, 1>> :> e11 @@ <<1, 1, 1>> :> e111
                   @@ <<1, 2>> :> e12 @@ <<2>> :> r2)
          /\ Cardinality(Faulty(fs)) <= MaxFaults
          /\ (platform # "nt" => r2 = Absent)
    /\ pc = "start"
    /\ run = 1
    /\ rootsLeft = <<>>
    /\ stack = <<>>
    /\ directories = <<>>
    /\ files = <<>>
    /\ tags = <<>>
    /\ committed = EmptyStore
    /\ lastReturn = NoReturn
    /\ calls = 0
    /\ probe = NoProbe

(***************************************************************************)
(* main                                                                    *)
(***************************************************************************)
\* [fs for fs in filesystems if len(fs) <= 4 and fs[1] == ":"], line 198
\* (fs[1] is the second character; the -f values in use have at least two)
DriveTokens(l) == SelectSeq(l, LAMBDA x : Len(x) <= 4 /\ x[2] = ":")

\* the entry a root path names (root 2 is a second drive: it has a path of its
\* own on Windows only)
RootNode(p) ==
    CHOOSE n \in Universe :
        /\ IsRootNode(n) /\ PathStr(n) = p
        /\ \A m \in Universe : (IsRootNode(m) /\ PathStr(m) = p) => n[1] <= m[1]

\* root_directories, lines 195-202
root_directories ==
    IF platform = "nt"
    THEN <<RootNode(<<"C", ":", "\\">>)>>
         \o (IF filesystems.given
             THEN [i \in 1..Len(DriveTokens(filesystems.val)) |->
                      RootNode(DriveTokens(filesystems.val)[i] \o <<"\\">>)]
             ELSE <<>>)
    ELSE <<RootNode(<<"/">>)>>

\* main up to the loop over the roots: create_database creates nothing that
\* exists, the connection sees the committed tables
Main ==
    /\ pc = "start"
    /\ pc' = "walking"
    /\ calls' = 0
    /\ rootsLeft' = root_directories
    /\ filesystems' = IF platform = "nt" /\ filesystems.given
                      THEN SomeList(DriveTokens(filesystems.val))
                      ELSE filesystems
    /\ UNCHANGED <<probe, platform, fs, run, stack, directories, files, tags,
                   committed, lastReturn>>

Becomes(o) ==
    /\ pc' = o.pc
    /\ stack' = o.stack
    /\ directories' = o.directories
    /\ files' = o.files
    /\ tags' = o.tags

\* get_directory_structure(conn, root_directory, filesystems), line 209
WalkRoot ==
    /\ pc = "walking" /\ stack = <<>> /\ rootsLeft # <<>>
    /\ LET o == Call(Head(rootsLeft), NULL, <<>>)
       IN /\ Becomes(o)
          /\ rootsLeft' = IF o.pc = "crashed" THEN <<>> ELSE Tail(rootsLeft)
    /\ UNCHANGED <<calls, probe, platform, filesystems, fs, run, committed, lastReturn>>

\* conn.commit(), line 210
Commit ==
    /\ pc = "walking" /\ stack = <<>> /\ rootsLeft = <<>>
    /\ pc' = "done"
    /\ committed' = [directories |-> directories, files |-> files, tags |-> tags]
    /\ UNCHANGED <<calls, probe, platform, filesystems, fs, run, rootsLeft, stack,
                   directories, files, tags, lastReturn>>

\* the program is started again on the same tree and the same store
Rerun ==
    /\ pc \in {"done", "crashed"}
    /\ run < MaxRuns
    /\ pc' = "start"
    /\ run' = run + 1
    /\ lastReturn' = NoReturn
    /\ UNCHANGED <<calls, probe, platform, filesystems, fs, rootsLeft, stack,
                   directories, files, tags, committed>>

(***************************************************************************)
(* The loop of get_directory_structure, one entry at a time                *)
(***************************************************************************)
InLoop == pc = "walking" /\ stack # <<>> /\ Top(stack).file = NoFile

\* the stack once the top call has taken `item` from its listing
Taken(item) == [stack EXCEPT ![Len(stack)].todo = @ \ {item}]

\* the mount-point test of line 135
Rejected(item) == ismount(item) /\ ~is_path_in_filesystems(item, filesystems)

\* lines 132-133
SkipLink ==
    /\ InLoop
    /\ \E item \in Top(stack).todo :
          /\ islink(item)
          /\ stack' = Taken(item)
    /\ UNCHANGED <<calls, probe, platform, filesystems, fs, pc, run, rootsLeft,
                   directories, files, tags, committed, lastReturn>>

\* lines 134-139
SkipMount ==
    /\ InLoop
    /\ \E item \in Top(stack).todo :
          /\ ~islink(item) /\ isdir(item) /\ Rejected(item)
          /\ stack' = Taken(item)
    /\ UNCHANGED <<calls, probe, platform, filesystems, fs, pc, run, rootsLeft,
                   directories, files, tags, committed, lastReturn>>

\* lines 140-144: the recursive call, up to the loop of the callee
Recurse ==
    /\ InLoop
    /\ \E item \in Top(stack).todo :
          /\ ~islink(item) /\ isdir(item) /\ ~Rejected(item)
          /\ LET o == Call(item, Top(stack).parent_id, Taken(item))
             IN /\ Becomes(o)
                /\ rootsLeft' = IF o.pc = "crashed" THEN <<>> ELSE rootsLeft
    /\ calls' = calls + 1
    /\ UNCHANGED <<probe, platform, filesystems, fs, run, committed, lastReturn>>

\* lines 146-148: stat the file and insert its row
InsertFile ==
    /\ InLoop
    /\ \E item \in Top(stack).todo :
          /\ ~islink(item) /\ ~isdir(item)
          /\ LET taken == Taken(item)
                 f2 == insert_file(files, Top(stack).parent_id, PathName(item),
                                   PathStr(item), StSize(item))
                 o == IF fs[item].fault = "statPerm"
                      THEN Raised("PermissionError", taken, directories, files, tags)
                      ELSE IF fs[item].fault = "statOS"
                      THEN Raised("OSError", taken, directories, files, tags)
                      ELSE [pc |-> "walking",
                            stack |-> [taken EXCEPT ![Len(taken)].file =
                                          [node |-> item, id |-> lastrowid(f2)]],
                            directories |-> directories, files |-> f2, tags |-> tags]
             IN /\ Becomes(o)
                /\ rootsLeft' = IF o.pc = "crashed" THEN <<>> ELSE rootsLeft
    /\ UNCHANGED <<calls, probe, platform, filesystems, fs, run, committed, lastReturn>>

\* Does the owner lookup of lines 158-167 raise? On a platform that is
\* neither posix nor nt file_owner is never bound.
OwnerFails(item) == platform = "other" \/ fs[item].fault = "owner"

\* lines 150-170: derive the tag of the file just inserted and insert it
InsertTag ==
    /\ pc = "walking" /\ stack # <<>> /\ Top(stack).file # NoFile
    /\ LET item == Top(stack).file.node
           file_id == Top(stack).file.id
           file_size == get_file_size_category(StSize(item))
           file_format == file_format_of(PathStr(item))
           file_indent == get_folder_depth(PathStr(item))
           cleared == [stack EXCEPT ![Len(stack)].file = NoFile]
           o == IF OwnerFails(item)
                THEN Raised("Error", stack, directories, files, tags)
                ELSE [pc |-> "walking", stack |-> cleared,
                      directories |-> directories, files |-> files,
                      tags |-> insert_tag(tags, file_id, file_size, file_format,
                                          "user", file_indent)]
       IN /\ Becomes(o)
          /\ rootsLeft' = IF o.pc = "crashed" THEN <<>> ELSE rootsLeft
    /\ UNCHANGED <<calls, probe, platform, filesystems, fs, run, committed, lastReturn>>

\* a call that hands back the id of its own directory row
ReturnValue_own(frame) == frame.own

\* the value a call hands back, line 174
ReturnValue(frame) == frame.parent_id

\* line 174, and the assignment of lines 141-142 in the caller
Return ==
    /\ InLoop
    /\ Top(stack).todo = {}
    /\ LET frame == Top(stack)
           callers == Front(stack)
       IN /\ stack' = IF callers = <<>> THEN callers
                      ELSE [callers EXCEPT ![Len(callers)].parent_id = ReturnValue(frame)]
          /\ lastReturn' = [node |-> frame.node, own |-> frame.own,
                            ret |-> ReturnValue(frame)]
    /\ UNCHANGED <<calls, probe, platform, filesystems, fs, pc, run, rootsLeft,
                   directories, files, tags, committed>>

Next ==
    \/ Main
    \/ WalkRoot
    \/ SkipLink
    \/ SkipMount
    \/ Recurse
    \/ InsertFile
    \/ InsertTag
    \/ Return
    \/ Commit
    \/ Rerun

Spec == Init /\ [][Next]_vars

(***************************************************************************)
(* Vocabulary of the properties, stated on the tree and not on the code    *)
(***************************************************************************)
\* the entries that exist
Present == {n \in Universe : fs[n].kind # "none"}

DirRowsAt(p) == {i \in 1..Len(directories) : directories[i].full_path = p}
FileRowsAt(p) == {i \in 1..Len(files) : files[i].file_path = p}
TagRowsOf(id) == {i \in 1..Len(tags) : tags[i].file_id = id}
DirIds == {directories[i].id : i \in 1..Len(directories)}
FileIds == {files[i].id : i \in 1..Len(files)}

RootSet == {root_directories[i] : i \in 1..Len(root_directories)}

\* every root main walks exists
RootsExist == \A n \in RootSet : fs[n].kind = "dir"

\* no system call fails anywhere in the tree
ErrorFree == Faulty(fs) = {} /\ RootsExist /\ platform # "other"

\* the first run has ended with its commit
FirstRunDone == run = 1 /\ pc = "done"

\* C1: a second run over the unchanged tree, against the store the first run
\* left, commits exactly the rows the first run left, with no second directory
\* row for a full_path and no second file row for a file_path.
C1_RerunIsNoOp ==
    [][(run = 2 /\ pc = "walking" /\ pc' = "done")
        => /\ committed' = committed
           /\ \A n \in Universe :
                 /\ Cardinality({i \in 1..Len(committed'.directories) :
                        committed'.directories[i].full_path = PathStr(n)}) <= 1
                 /\ Cardinality({i \in 1..Len(committed'.files) :
                        committed'.files[i].file_path = PathStr(n)}) <= 1]_vars

\* C2: after an error-free walk every non-root directory row's parent_id is
\* the id of the row of the directory that directly contains it.
C2_ParentIsContainer ==
    (FirstRunDone /\ ErrorFree) =>
        \A n \in Present : \A i \in DirRowsAt(PathStr(n)) :
            ~IsRootNode(n) =>
                \E j \in DirRowsAt(PathStr(Parent(n))) :
                    directories[i].parent_id = directories[j].id

\* C3: after an error-free walk every file row's directory_id is the id of
\* the row of the directory that directly contains the file.
C3_FileInContainer ==
    (FirstRunDone /\ ErrorFree) =>
        \A n \in Present : \A i \in FileRowsAt(PathStr(n)) :
            \E j \in DirRowsAt(PathStr(Parent(n))) :
                files[i].directory_id = directories[j].id

\* C4: a call of get_directory_structure on a directory whose row was
\* inserted returns the id of that row.
C4_ReturnsOwnId ==
    lastReturn.own # NULL => lastReturn.ret = lastReturn.own

\* m lies below n in the tree
Below(m, n) == Len(m) > Len(n) /\ SubSeq(m, 1, Len(n)) = n

\* some row of some table is about the entry n
HasRow(n) ==
    \/ DirRowsAt(PathStr(n)) # {}
    \/ FileRowsAt(PathStr(n)) # {}
    \/ \E i \in FileRowsAt(PathStr(n)) : TagRowsOf(files[i].id) # {}

\* a call on n is active or was the last to return, or n is the file being tagged
Entered(n) ==
    \/ \E k \in 1..Len(stack) : stack[k].node = n \/ stack[k].file.node = n
    \/ lastReturn.node = n

\* the entry n of an active call has been taken from the listing
Passed(n) ==
    \E k \in 1..Len(stack) :
        /\ stack[k].node = Parent(n)
        /\ stack[k].own # NULL
        /\ n \notin stack[k].todo

\* C5: a directory entry that is a symbolic link, whatever it points to,
\* never gets a directory, file or tag row, and is never walked or statted.
C5_LinksLeftAlone ==
    \A n \in Universe :
        fs[n].kind = "link" => ~HasRow(n) /\ ~Entered(n)

C5_Witness ==
    \E n \in Universe :
        /\ fs[n].kind = "link" /\ fs[n].target = "dir"
        /\ Passed(n)
        /\ Len(directories) >= 2

\* The Boundary Policy turns n down: off Windows, its path cannot be resolved
\* or no allowed root is a prefix of it.
PolicyRejects(n) ==
    /\ platform # "nt"
    /\ \/ fs[n].fault = "resolve"
       \/ \A i \in 1..Len(filesystems.val) : ~StartsWith(PathStr(n), filesystems.val[i])

\* the directories the walk is to visit: the roots, and below them every real
\* directory that is not a mount point the policy turns down
RECURSIVE ToVisit(_)
ToVisit(n) ==
    /\ fs[n].kind = "dir"
    /\ IF IsRootNode(n) THEN n \in RootSet
       ELSE ~(fs[n].mount /\ PolicyRejects(n)) /\ ToVisit(Parent(n))

\* the files the walk is to record
ToRecord(n) == ~IsRootNode(n) /\ fs[n].kind = "file" /\ ToVisit(Parent(n))

C7_NoDanglingReference ==
    /\ \A i \in 1..Len(directories) :
          directories[i].parent_id = NULL \/ directories[i].parent_id \in DirIds
    /\ \A i \in 1..Len(files) : files[i].directory_id \in DirIds
    /\ \A i \in 1..Len(tags) : tags[i].file_id \in FileIds

C7_Witness ==
    /\ pc = "walking" /\ stack # <<>>
    /\ Top(stack).file # NoFile
    /\ Len(tags) >= 1
    /\ \E i \in 1..Len(directories) : directories[i].parent_id # NULL

\* the only failures in the tree are listings that raise a permission error
OnlyListingDenied ==
    /\ platform # "other"
    /\ RootsExist
    /\ \A n \in Universe : fs[n].fault \in {"none", "listPerm"}

\* nothing fails in the directories above n
Reachable(n) == \A k \in 1..(Len(n) - 1) : fs[SubSeq(n, 1, k)].fault = "none"

\* the subdirectories the walk reaches whose listing raises a permission error
Denied ==
    {n \in Universe :
        ~IsRootNode(n) /\ fs[n].fault = "listPerm" /\ ToVisit(n) /\ Reachable(n)}

\* C8: when listing a subdirectory S raises a permission error, S's row is
\* already inserted, the run does not fail, and every sibling of S is still
\* processed.
C8_ListingDeniedIsLocal ==
    OnlyListingDenied =>
        /\ pc # "crashed"
        /\ \A S \in Denied :
              /\ \A k \in 1..Len(stack) :
                    stack[k].node = S =>
                        \E i \in DirRowsAt(PathStr(S)) : directories[i].id = stack[k].own
              /\ (Passed(S) \/ FirstRunDone) => DirRowsAt(PathStr(S)) # {}
              /\ FirstRunDone =>
                    \A n \in Universe :
                        (~IsRootNode(n) /\ Parent(n) = Parent(S)) =>
                            /\ ToVisit(n) => DirRowsAt(PathStr(n)) # {}
                            /\ ToRecord(n) => FileRowsAt(PathStr(n)) # {}

C8_Witness ==
    /\ OnlyListingDenied
    /\ FirstRunDone
    /\ \E S \in Denied :
          \E i \in 1..Len(files) : \E j \in DirRowsAt(PathStr(S)) :
              /\ files[i].file_path = PathStr(Parent(S) \o <<2>>)
              /\ files[i].directory_id = directories[j].id

\* C9: a subdirectory that is a mount point and that the Boundary Policy
\* rejects is skipped entirely: no row for it or for anything below it, no
\* call on it, and the walk goes on with the entries that remain.
C9_RejectedMountSkipped ==
    \A n \in Universe :
        (~IsRootNode(n) /\ fs[n].kind = "dir" /\ fs[n].mount /\ PolicyRejects(n)) =>
            /\ ~HasRow(n) /\ ~Entered(n)
            /\ \A m \in Universe : Below(m, n) => ~HasRow(m) /\ ~Entered(m)
            /\ (ErrorFree /\ FirstRunDone) =>
                  \A m \in Universe :
                      /\ ToVisit(m) => DirRowsAt(PathStr(m)) # {}
                      /\ ToRecord(m) => FileRowsAt(PathStr(m)) # {}

C9_Witness ==
    /\ ErrorFree /\ FirstRunDone
    /\ filesystems.given
    /\ fs[<<1, 1>>].kind = "dir" /\ fs[<<1, 1>>].mount /\ ~PolicyRejects(<<1, 1>>)
    /\ fs[<<1, 2>>].kind = "dir" /\ fs[<<1, 2>>].mount /\ PolicyRejects(<<1, 2>>)
    /\ FileRowsAt(PathStr(<<1, 1, 1>>)) # {}

\* the only failures in the tree are owner lookups
OnlyOwnerFails ==
    RootsExist /\ \A n \in Universe : fs[n].fault \in {"none", "owner"}

\* C10: when the owner of a file cannot be resolved the run does not fail:
\* the file still gets its tag row and the remaining entries are processed.
C10_OwnerFailsSoft ==
    OnlyOwnerFails =>
        /\ pc # "crashed"
        /\ FirstRunDone =>
              /\ \A n \in Universe : ToRecord(n) => FileRowsAt(PathStr(n)) # {}
              /\ \A i \in 1..Len(files) : TagRowsOf(files[i].id) # {}

(***************************************************************************)
(* The classifier applied on its own to byte sizes around its thresholds   *)
(***************************************************************************)
SizeMargin == 5

KiB16 == [hi |-> 0, lo |-> 16384]
MiB(k) == [hi |-> k, lo |-> 0]
Thresholds == {KiB16, MiB(1), MiB(128), MiB(1024), MiB(4096)}

SizeInputs ==
    {Num(k) : k \in 0..SizeMargin}
    \cup {Plus(T, d) : T \in Thresholds, d \in (0 - SizeMargin)..SizeMargin}

\* the state of a program that is not walking
Idle ==
    /\ platform = "posix"
    /\ filesystems = NoList
    /\ fs = [n \in Universe |-> Absent]
    /\ pc = "probe"
    /\ run = 1
    /\ rootsLeft = <<>>
    /\ stack = <<>>
    /\ directories = <<>>
    /\ files = <<>>
    /\ tags = <<>>
    /\ committed = EmptyStore
    /\ lastReturn = NoReturn
    /\ calls = 0

InitSize ==
    /\ Idle
    /\ \E s \in SizeInputs : probe = [op |-> "none", arg |-> s, res |-> "-"]

\* file_size = get_file_size_category(file_stat.st_size), line 150
Classify ==
    /\ probe.op = "none"
    /\ probe' = [op |-> "size", arg |-> probe.arg,
                 res |-> get_file_size_category(probe.arg)]
    /\ UNCHANGED <<platform, filesystems, fs, pc, run, rootsLeft, stack,
                   directories, files, tags, committed, lastReturn, calls>>

NextSize == Classify

SpecSize == InitSize /\ [][NextSize]_vars

\* the bucket of a byte size, by the intervals of the specification
Bucket(s) ==
    CASE s = MiB(0) -> "Empty"
      [] Less(MiB(0), s) /\ LessEq(s, KiB16) -> "Tiny"
      [] Less(KiB16, s) /\ LessEq(s, MiB(1)) -> "Small"
      [] Less(MiB(1), s) /\ LessEq(s, MiB(128)) -> "Medium"
      [] Less(MiB(128), s) /\ LessEq(s, MiB(1024)) -> "Large"
      [] Less(MiB(1024), s) /\ LessEq(s, MiB(4096)) -> "Huge"
      [] Less(MiB(4096), s) -> "Gigantic"

\* C11: get_file_size_category gives every size s >= 0 the bucket of the
\* interval it lies in: 0 Empty, (0, 16 KiB] Tiny, (16 KiB, 1 MiB] Small,
\* (1 MiB, 128 MiB] Medium, (128 MiB, 1 GiB] Large, (1 GiB, 4 GiB] Huge,
\* above 4 GiB Gigantic; each threshold lies in the lower bucket, threshold + 1
\* in the next.
C11_SizeBuckets ==
    probe.op = "size" =>
        /\ probe.res = Bucket(probe.arg)
        /\ \A T \in Thresholds :
              /\ probe.arg = T => probe.res # get_file_size_category(Plus(T, 1))
              /\ probe.arg = Plus(T, 1) => probe.res = Bucket(Plus(T, 2))

C11_Witness ==
    /\ probe.op = "size"
    /\ probe.arg = Plus(MiB(4096), 1)
    /\ probe.res = "Gigantic"

\* the roots that have a path of their own on this platform
HasPath(n) == n[1] = 1 \/ platform = "nt"

\* C12: get_folder_depth ends on every absolute path with the number of
\* segments below the root: 0 for a root, depth(p/x) = depth(p) + 1; so the
\* indent of a file's tag is one more than the depth of its directory.
C12_DepthCountsSegments ==
    /\ \A n \in Universe :
          HasPath(n) =>
              /\ get_folder_depth(PathStr(n)) = Len(n) - 1
              /\ \A i \in 1..2 :
                    get_folder_depth(joinpath(PathStr(n), SegName(i)))
                        = get_folder_depth(PathStr(n)) + 1
    /\ \A n \in Present : \A i \in FileRowsAt(PathStr(n)) :
          \A j \in TagRowsOf(files[i].id) :
              tags[j].indent = get_folder_depth(PathStr(Parent(n))) + 1

C12_Witness ==
    /\ platform = "nt"
    /\ \E i \in FileRowsAt(PathStr(<<1, 1, 1>>)) :
          \E j \in TagRowsOf(files[i].id) : tags[j].indent = 2
    /\ \E i \in FileRowsAt(PathStr(<<1, 2>>)) :
          \E j \in TagRowsOf(files[i].id) : tags[j].indent = 1

\* the only failures in the tree are the stat or the listing of directories
\* that exist
OnlyDirectoriesFail ==
    /\ platform # "other"
    /\ RootsExist
    /\ \A n \in Faulty(fs) :
          /\ fs[n].kind = "dir"
          /\ fs[n].fault \in {"statPerm", "statOS", "lateStatPerm", "lateStatOS",
                              "listPerm", "listOS"}

\* the directories whose stat or listing fails when the walk comes to them
Failing == {n \in Faulty(fs) : Reachable(n)}

\* C13: a stat or listing failure on a directory, root or not, denied or
\* removed, never aborts the run: the run reaches its commit and every
\* sibling of the failing directory is still recorded.
C13_DirectoryFailureIsLocal ==
    OnlyDirectoriesFail =>
        /\ pc # "crashed"
        /\ FirstRunDone =>
              \A S \in Failing : \A n \in Universe :
                  (~IsRootNode(S) /\ ~IsRootNode(n) /\ Parent(n) = Parent(S)) =>
                      /\ ToVisit(n) => DirRowsAt(PathStr(n)) # {}
                      /\ ToRecord(n) => FileRowsAt(PathStr(n)) # {}

\* the only failures are OS-level errors other than permission errors, raised
\* by the stat or the listing of subdirectories
OnlySubdirOSErrors ==
    /\ platform # "other"
    /\ RootsExist
    /\ \A n \in Faulty(fs) :
          ~IsRootNode(n) /\ fs[n].kind = "dir" /\ fs[n].fault \in {"lateStatOS", "listOS"}

\* the walk of the subdirectory S, entered from the loop of the top call,
\* raises an OS-level error
WalkRaises(S) ==
    /\ InLoop /\ S \in Top(stack).todo
    /\ ~islink(S) /\ isdir(S) /\ ~Rejected(S)
    /\ fs[S].fault \in {"lateStatOS", "listOS"}

\* the top call has taken S in this step
Takes(S) ==
    /\ Len(stack') >= Len(stack)
    /\ stack'[Len(stack)].node = Top(stack).node
    /\ stack'[Len(stack)].todo = Top(stack).todo \ {S}

\* the step that takes a raising subdirectory S leaves the caller in its loop
\* with the parent id it had, S taken and everything listed after S still to do
SkippedAtCallSite ==
    \A S \in Universe :
        (WalkRaises(S) /\ Takes(S)) =>
            /\ pc' = "walking"
            /\ Len(stack') = Len(stack)
            /\ Front(stack') = Front(stack)
            /\ Top(stack').parent_id = Top(stack).parent_id
            /\ Top(stack').todo = Top(stack).todo \ {S}

\* C14: when the recursive walk of a subdirectory S raises an OS-level error
\* the caller catches it at the call: S is skipped, the caller's parent id is
\* what it was before the call, the run does not fail and every sibling of S
\* that does not fail itself is still processed.
C14_CaughtAtCallSite ==
    /\ [][SkippedAtCallSite]_vars
    /\ [](OnlySubdirOSErrors =>
            /\ pc # "crashed"
            /\ FirstRunDone =>
                  \A S \in Failing : \A n \in Universe \ Faulty(fs) :
                      (~IsRootNode(n) /\ Parent(n) = Parent(S)) =>
                          /\ ToVisit(n) => DirRowsAt(PathStr(n)) # {}
                          /\ ToRecord(n) => FileRowsAt(PathStr(n)) # {})

\* the listing of /b.T failed after its row was inserted; its sibling /a was
\* walked later, under the parent id the root call had before
C14_Witness ==
    /\ OnlySubdirOSErrors /\ FirstRunDone
    /\ fs[<<1, 2>>].kind = "dir" /\ fs[<<1, 2>>].fault = "listOS"
    /\ \E r \in DirRowsAt(PathStr(<<1>>)), i \in DirRowsAt(PathStr(<<1, 2>>)),
          j \in DirRowsAt(PathStr(<<1, 1>>)) :
          /\ i < j
          /\ directories[j].parent_id = directories[r].id
    /\ FileRowsAt(PathStr(<<1, 1, 1>>)) # {}

\* a file row has been inserted and its tag has not
AwaitingTag == pc = "walking" /\ stack # <<>> /\ Top(stack).file # NoFile

\* the step appends one tag row, for the file id given, and writes nothing else
AppendsTagOf(id) ==
    /\ Len(tags') = Len(tags) + 1
    /\ SubSeq(tags', 1, Len(tags)) = tags
    /\ tags'[Len(tags')].file_id = id
    /\ files' = files
    /\ directories' = directories

\* the step inserts a file row and hands its id to the tag that is to follow
InsertsFileThenAwaits ==
    /\ Len(files') = Len(files) + 1
    /\ AwaitingTag'
    /\ Top(stack').file.id = files'[Len(files')].id

\* what the run writes, step by step, around a tag
TagFollowsItsFile ==
    /\ (AwaitingTag /\ pc' # "crashed") => AppendsTagOf(Top(stack).file.id)
    /\ (tags' # tags /\ pc' # "crashed") => AwaitingTag
    /\ (files' # files /\ pc' # "crashed") => InsertsFileThenAwaits

\* C15: a tag insert is the write that follows the insert of its file row,
\* with nothing written in between; its file_id is the id that file insert
\* returned; and a file row never has more than one tag row.
C15_TagFollowsFile ==
    /\ [][TagFollowsItsFile]_vars
    /\ [](AwaitingTag =>
            /\ files # <<>>
            /\ files[Len(files)].id = Top(stack).file.id
            /\ files[Len(files)].file_path = PathStr(Top(stack).file.node)
            /\ TagRowsOf(Top(stack).file.id) = {})
    /\ [](\A i \in 1..Len(files) : Cardinality(TagRowsOf(files[i].id)) <= 1)

\* the second file of the first run has just got its tag
C15_Witness ==
    /\ run = 1 /\ pc = "walking" /\ stack # <<>> /\ ~AwaitingTag
    /\ Len(files) = 2 /\ Len(tags) = 2
    /\ tags[2].file_id = files[2].id
    /\ tags[2].indent = 2

\* the entries the walk has still to come to: those in or below what a call
\* has yet to take from its listing, and the roots not yet walked with what
\* is below them
Waiting ==
    {n \in Universe :
        \/ \E k \in 1..Len(stack) : \E m \in stack[k].todo : n = m \/ Below(n, m)
        \/ \E i \in 1..Len(rootsLeft) : n = rootsLeft[i] \/ Below(n, rootsLeft[i])}

\* what is left of the run: it is 0 when the run has ended
Variant ==
    3 * Cardinality(Waiting) + 2 * Len(stack)
        + (IF AwaitingTag THEN 1 ELSE 0) + (IF pc = "walking" THEN 1 ELSE 0)

\* the directories of the tree that are not links and not roots
RealSubdirs == {n \in Present : ~IsRootNode(n) /\ fs[n].kind = "dir"}

\* the run has a step to take: the tag of the file just inserted, which
\* InsertTag derives and inserts whatever the file is, or one of the others
CanStep ==
    \/ AwaitingTag
    \/ ENABLED (WalkRoot \/ SkipLink \/ SkipMount \/ Recurse \/ InsertFile
                   \/ Return \/ Commit)

\* C16: the walk of a finite tree terminates, also when the tree holds
\* symbolic links to directories: while the run walks it can always take a
\* step, every step brings it nearer to its end, and it makes no more
\* recursive calls than there are real subdirectories.
C16_WalkTerminates ==
    /\ [][pc = "walking" => Variant' < Variant]_vars
    /\ [](pc = "walking" => CanStep)
    /\ [](pc \in {"done", "crashed"} => Variant = 0)
    /\ [](calls <= Cardinality(RealSubdirs))

\* a run has ended on a tree with a link to a directory and two real
\* subdirectories, after one recursive call for each of the two
C16_Witness ==
    /\ FirstRunDone
    /\ fs[<<1, 2>>].kind = "link" /\ fs[<<1, 2>>].target = "dir"
    /\ Cardinality(RealSubdirs) = 2
    /\ calls = 2
    /\ Len(directories) = 3

\* a real subdirectory that is no mount point and whose own stat succeeds
PlainSubdir(n) ==
    /\ ~IsRootNode(n)
    /\ fs[n].kind = "dir" /\ ~fs[n].mount
    /\ fs[n].fault \in {"none", "listPerm", "listOS"}

\* C17: the Boundary Policy plays no part for a subdirectory that is not a
\* mount point: once the walk of its directory has come to it, nothing having
\* failed outside it, it has its directory row, whatever the allow-list is,
\* and in an error-free run the files in it have their rows.
C17_PolicyOnlyForMounts ==
    \A n \in Universe :
        PlainSubdir(n) =>
            /\ (run = 1 /\ Passed(n) /\ \A m \in Faulty(fs) : m = n \/ Below(m, n)) =>
                  DirRowsAt(PathStr(n)) # {}
            /\ (FirstRunDone /\ ErrorFree /\ DirRowsAt(PathStr(Parent(n))) # {}) =>
                  /\ DirRowsAt(PathStr(n)) # {}
                  /\ \A c \in Universe :
                        (Len(c) = Len(n) + 1 /\ Parent(c) = n /\ fs[c].kind = "file") =>
                            FileRowsAt(PathStr(c)) # {}

\* /b.T lies outside the one allowed root /a, /a is listed under no allow-list
\* at all in other runs; here both are walked
C17_Witness ==
    /\ FirstRunDone /\ ErrorFree
    /\ platform = "posix" /\ filesystems.given
    /\ PlainSubdir(<<1, 2>>) /\ PolicyRejects(<<1, 2>>)
    /\ DirRowsAt(PathStr(<<1, 2>>)) # {}
    /\ PlainSubdir(<<1, 1>>)
    /\ FileRowsAt(PathStr(<<1, 1, 1>>)) # {}

(***************************************************************************)
(* The Boundary Policy on its own                                          *)
(***************************************************************************)
\* the -f values the policy is asked about: none, an empty list, and lists of
\* one or two strings
AllowLists ==
    {NoList, SomeList(<<>>)}
    \cup {SomeList(<<r>>) :
            r \in {<<"/">>, <<"/", "a">>, <<"/", "b">>, <<"/", "a", "/">>,
                   <<"/", "a", "/", "a">>, <<"a">>, <<"/", "b", ".", "T", "x">>,
                   <<"D", ":">>}}
    \cup {SomeList(<< <<"/", "x">>, <<"/", "b", ".", "T">> >>)}

\* the subdirectories of the first root
Subdirs == {n \in Universe : n[1] = 1 /\ ~IsRootNode(n)}

InitPolicy ==
    /\ platform \in {"posix", "nt", "other"}
    /\ filesystems \in AllowLists
    /\ \E n \in Subdirs : \E f \in {"none", "resolve"} :
          /\ fs = [m \in Universe |->
                     IF m[1] # 1 THEN Absent
                     ELSE [kind |-> "dir", mount |-> ~IsRootNode(m),
                           fault |-> IF m = n THEN f ELSE "none", target |-> "-"]]
          /\ probe = [op |-> "none", arg |-> n, res |-> "-"]
    /\ pc = "probe"
    /\ run = 1
    /\ rootsLeft = <<>>
    /\ stack = <<>>
    /\ directories = <<>>
    /\ files = <<>>
    /\ tags = <<>>
    /\ committed = EmptyStore
    /\ lastReturn = NoReturn
    /\ calls = 0

\* is_path_in_filesystems(item_path, filesystems), line 135
Consult ==
    /\ probe.op = "none"
    /\ probe' = [op |-> "policy", arg |-> probe.arg,
                 res |-> is_path_in_filesystems(probe.arg, filesystems)]
    /\ UNCHANGED <<platform, filesystems, fs, pc, run, rootsLeft, stack,
                   directories, files, tags, committed, lastReturn, calls>>

NextPolicy == Consult

SpecPolicy == InitPolicy /\ [][NextPolicy]_vars

\* the resolved absolute path of each subdirectory on a platform other than
\* Windows, written out
Resolved(n) ==
    CASE n = <<1, 1>> -> <<"/", "a">>
      [] n = <<1, 1, 1>> -> <<"/", "a", "/", "a">>
      [] n = <<1, 2>> -> <<"/", "b", ".", "T">>

\* p is a string prefix of s: s is p followed by some string
IsStringPrefix(p, s) == \E k \in 0..Len(s) : s = p \o SubSeq(s, k + 1, Len(s))

\* C18: off Windows is_path_in_filesystems answers true exactly when the
\* resolved path has one of the allowed roots as a string prefix; it answers
\* false when resolution fails and when there is no allow-list, so that
\* without an allow-list every mount point is skipped. On Windows it answers
\* true for every input.
C18_PolicyIsStringPrefix ==
    probe.op = "policy" =>
        /\ probe.res \in BOOLEAN
        /\ platform = "nt" => probe.res
        /\ platform # "nt" =>
              /\ fs[probe.arg].fault = "resolve" => ~probe.res
              /\ ~filesystems.given => ~probe.res /\ Rejected(probe.arg)
              /\ (fs[probe.arg].fault # "resolve" /\ filesystems.given) =>
                    (probe.res <=>
                        \E i \in 1..Len(filesystems.val) :
                            IsStringPrefix(filesystems.val[i], Resolved(probe.arg)))

\* /b is a prefix of /b.T as a string, though no directory above it
C18_Witness ==
    /\ probe.op = "policy"
    /\ platform = "posix"
    /\ filesystems = SomeList(<< <<"/", "b">> >>)
    /\ probe.arg = <<1, 2>> /\ fs[<<1, 2>>].fault = "none"
    /\ probe.res = TRUE

\* table u is table t with rows added after it, under ids t does not hold
Extends(t, u) ==
    /\ Len(u) >= Len(t)
    /\ SubSeq(u, 1, Len(t)) = t
    /\ \A i \in (Len(t) + 1)..Len(u) : \A j \in 1..(i - 1) : u[j].id # u[i].id

\* a step of a run that goes on leaves each table as it was or adds rows to it
OnlyAppends ==
    pc' # "crashed" =>
        /\ Extends(directories, directories')
        /\ Extends(files, files')
        /\ Len(tags') >= Len(tags) /\ SubSeq(tags', 1, Len(tags)) = tags

\* C19: the store is append-only during a run: a step leaves the three tables
\* unchanged or adds rows, no row is modified or deleted, and no id is given
\* twice. (A run that ends by an uncaught exception never commits: its rows
\* were never in the store.)
C19_AppendOnly ==
    /\ [][OnlyAppends]_vars
    /\ [](\A i, j \in 1..Len(directories) :
            directories[i].id = directories[j].id => i = j)
    /\ [](\A i, j \in 1..Len(files) : files[i].id = files[j].id => i = j)
    /\ [](\A i, j \in 1..Len(tags) : tags[i].file_id = tags[j].file_id => i = j)

\* the second run adds rows after the rows the first run committed
C19_Witness ==
    /\ run = 2 /\ pc = "walking"
    /\ Len(committed.directories) >= 2 /\ Len(committed.files) >= 1
    /\ Len(directories) > Len(committed.directories)
    /\ Len(files) > Len(committed.files)
    /\ Len(tags) > Len(committed.tags)

\* an error-free walk of one root in which no mount point is skipped
PlainWalk ==
    /\ ErrorFree
    /\ Len(root_directories) = 1
    /\ \A n \in Present : ~(fs[n].kind = "dir" /\ fs[n].mount /\ PolicyRejects(n))

\* the id of the directory row inserted last
LastDirId == directories[Len(directories)].id

\* what a step writes and hands back, against the directory row inserted last
FollowsLastDir ==
    /\ (Len(directories') = Len(directories) + 1 /\ directories # <<>>
            /\ directories'[Len(directories')].parent_id # NULL) =>
          directories'[Len(directories')].parent_id = LastDirId
    /\ Len(files') = Len(files) + 1 =>
          files'[Len(files')].directory_id = LastDirId
    /\ lastReturn' # lastReturn /\ lastReturn' # NoReturn =>
          /\ lastReturn'.ret = LastDirId
          /\ \E i \in 1..Len(directories) : \E m \in Present :
                /\ directories[i].id = lastReturn'.ret
                /\ directories[i].full_path = PathStr(m)
                /\ m = lastReturn'.node \/ Below(m, lastReturn'.node)

\* C20: in an error-free walk of one root with no mount point skipped the
\* parent id the walker carries is the id of the directory row inserted last:
\* a non-root directory row has for parent_id the id of the row before it, a
\* file row has for directory_id the id of the last directory row, and a call
\* on D returns the id of the last directory row of D's subtree.
C20_ParentIsLastInserted ==
    /\ [][PlainWalk => FollowsLastDir]_vars
    /\ [](PlainWalk =>
            /\ stack # <<>> => Top(stack).parent_id = LastDirId
            /\ \A i \in 2..Len(directories) :
                  directories[i].parent_id # NULL =>
                      directories[i].parent_id = directories[i - 1].id)

\* the root call goes on under the id of /a/a, and /b.T, a directory of the
\* root, has its row under that id
C20_Witness ==
    /\ PlainWalk /\ run = 1 /\ pc = "walking" /\ Len(stack) = 1
    /\ Top(stack).parent_id # Top(stack).own
    /\ \E i \in DirRowsAt(PathStr(<<1, 1, 1>>)), j \in DirRowsAt(PathStr(<<1, 2>>)) :
          directories[j].parent_id = directories[i].id
    /\ lastReturn.node = <<1, 2>> /\ lastReturn.ret = LastDirId

====
